---- MODULE Spec2Model ----
(***************************************************************************)
(* Shipi MCP server (src/index.js): 18 tools, each validated against its   *)
(* zod schema, translated into one outbound HTTP request by shipiRequest   *)
(* and answered with the backend's response serialized by toText.          *)
(*                                                                         *)
(* JavaScript values are tagged records, so that values of different       *)
(* types can be compared: [str |-> s], [num |-> n], [undef |-> TRUE],      *)
(* [obj |-> f] (f a function from property names to values) and            *)
(* [arr |-> s] (s a sequence of values).  Strings are TLA+ strings, which  *)
(* Len, SubSeq and \o treat as sequences of characters.                    *)
(***************************************************************************)
EXTENDS Integers, Sequences, FiniteSets, TLC

VARIABLES BASE_URL, DEFAULT_KEY, proc, exitCode, stderr, calls

vars == <<BASE_URL, DEFAULT_KEY, proc, exitCode, stderr, calls>>

\* Number of call slots the host may use.
NumSlots == 2

Slots == 1..NumSlots

------------------------------------------------------------------------------
(* JavaScript values *)

Empty == [k \in {} |-> k]

Str(s) == [str |-> s]

Num(n) == [num |-> n]

Undef == [undef |-> TRUE]

Obj(f) == [obj |-> f]

Arr(s) == [arr |-> s]

IsStr(v) == DOMAIN v = {"str"}

IsNum(v) == DOMAIN v = {"num"}

IsObj(v) == DOMAIN v = {"obj"}

IsArr(v) == DOMAIN v = {"arr"}

\* o.f : a missing property reads as undefined
Get(o, f) == IF f \in DOMAIN o THEN o[f] ELSE Undef

\* ToBoolean on the values that occur: undefined, "" and 0 are falsy
Truthy(v) ==
  CASE v = Undef -> FALSE
    [] IsStr(v) -> v.str # ""
    [] IsNum(v) -> v.num # 0
    [] OTHER -> TRUE

\* a || b
Or(a, b) == IF Truthy(a) THEN a ELSE b

\* String(v) on the values a query string receives
String(v) ==
  CASE IsStr(v) -> v.str
    [] IsNum(v) -> ToString(v.num)
    [] v = Undef -> "undefined"
    [] OTHER -> "[object Object]"

\* { ...a, ...b } : the later spread wins
Spread(a, b) == b @@ a

------------------------------------------------------------------------------
(* zod schemas: one entry per declared field *)

\* z.<type>()
Req(t) == [type |-> t, required |-> TRUE, hasDefault |-> FALSE, default |-> Undef]

\* z.<type>().optional()
Opt(t) == [type |-> t, required |-> FALSE, hasDefault |-> FALSE, default |-> Undef]

\* z.<type>().optional().default(d)
Def(t, d) == [type |-> t, required |-> FALSE, hasDefault |-> TRUE, default |-> d]

shipment_address_schema ==
  [name |-> Req("string"), company |-> Def("string", Str("")),
   address1 |-> Req("string"), address2 |-> Def("string", Str("")),
   city |-> Req("string"), state |-> Req("string"), postal |-> Req("string"),
   country |-> Req("string"), phone |-> Def("string", Str("")),
   email |-> Def("string", Str(""))]

receiver_address_schema ==
  [name |-> Def("string", Str("")), address1 |-> Req("string"),
   address2 |-> Def("string", Str("")), city |-> Req("string"),
   state |-> Req("string"), postal |-> Req("string"), country |-> Req("string")]

product_schema ==
  [name |-> Def("string", Str("Package")), weight |-> Req("number"),
   quantity |-> Def("number", Num(1)), price |-> Def("number", Num(0)),
   length |-> Def("number", Num(1)), width |-> Def("number", Num(1)),
   height |-> Def("number", Num(1))]

list_shipments_schema ==
  [integration_key |-> Opt("string"), page |-> Def("number", Num(1)),
   per_page |-> Def("number", Num(20)), status |-> Opt("string"),
   carrier |-> Opt("string"), date_from |-> Opt("string"), date_to |-> Opt("string")]

get_shipment_schema ==
  [integration_key |-> Opt("string"), id |-> Opt("string"), order_id |-> Opt("string")]

search_shipments_schema_noq ==
  [integration_key |-> Opt("string"), q |-> Opt("string"),
   limit |-> Def("number", Num(20))]

search_shipments_schema ==
  [integration_key |-> Opt("string"), q |-> Req("string"),
   limit |-> Def("number", Num(20))]

create_shipment_schema ==
  [integration_key |-> Opt("string"), carrier_id |-> Req("number"),
   service_code |-> Def("string", Str("")), shipper |-> Req("address"),
   recipient |-> Req("address"), products |-> Req("products")]

cancel_shipment_schema ==
  [integration_key |-> Opt("string"), shipment_id |-> Req("number")]

get_shipping_rates_schema ==
  [integration_key |-> Opt("string"), receiver_address |-> Req("receiver_address"),
   products |-> Req("products"), account_id |-> Opt("number")]

schedule_pickup_schema ==
  [integration_key |-> Opt("string"), order_id |-> Req("string"),
   carrier_type |-> Req("string"), pickup_date |-> Opt("string"),
   pickup_time |-> Opt("string")]

track_shipment_schema ==
  [tracking_number |-> Req("string"), carrier |-> Def("string", Str(""))]

fetch_labels_schema ==
  [integration_key |-> Opt("string"), page |-> Def("number", Num(1)),
   limit |-> Def("number", Num(50)), printed |-> Def("string", Str("all"))]

list_addresses_schema ==
  [integration_key |-> Opt("string"), type |-> Opt("string")]

get_address_schema ==
  [integration_key |-> Opt("string"), id |-> Req("number")]

add_address_schema ==
  [integration_key |-> Opt("string"), type |-> Def("string", Str("shipper")),
   name |-> Req("string"), company |-> Def("string", Str("")),
   mobile |-> Def("string", Str("")), email |-> Def("string", Str("")),
   address1 |-> Req("string"), address2 |-> Def("string", Str("")),
   city |-> Req("string"), state |-> Def("string", Str("")),
   country |-> Req("string"), postal |-> Req("string"),
   tax_id |-> Def("string", Str(""))]

edit_address_schema ==
  [integration_key |-> Opt("string"), id |-> Req("number"), type |-> Opt("string"),
   name |-> Opt("string"), company |-> Opt("string"), mobile |-> Opt("string"),
   email |-> Opt("string"), address1 |-> Opt("string"), address2 |-> Opt("string"),
   city |-> Opt("string"), state |-> Opt("string"), country |-> Opt("string"),
   postal |-> Opt("string")]

delete_address_schema ==
  [integration_key |-> Opt("string"), id |-> Req("number")]

list_carriers_schema == [integration_key |-> Opt("string")]

get_carrier_schema ==
  [integration_key |-> Opt("string"), id |-> Req("number")]

get_account_info_schema == [integration_key |-> Opt("string")]

get_shipping_stats_schema ==
  [integration_key |-> Opt("string"), period |-> Def("string", Str("month")),
   date_from |-> Opt("string"), date_to |-> Opt("string")]

\* the tools registered with server.tool, in registration order
Tools ==
  <<"list_shipments", "get_shipment", "search_shipments", "create_shipment",
    "cancel_shipment", "get_shipping_rates", "schedule_pickup", "track_shipment",
    "fetch_labels", "list_addresses", "get_address", "add_address", "edit_address",
    "delete_address", "list_carriers", "get_carrier", "get_account_info",
    "get_shipping_stats">>

ToolNames == {Tools[n] : n \in DOMAIN Tools}

ToolSchema(t) ==
  CASE t = "list_shipments" -> list_shipments_schema
    [] t = "get_shipment" -> get_shipment_schema
    [] t = "search_shipments" -> search_shipments_schema
    [] t = "create_shipment" -> create_shipment_schema
    [] t = "cancel_shipment" -> cancel_shipment_schema
    [] t = "get_shipping_rates" -> get_shipping_rates_schema
    [] t = "schedule_pickup" -> schedule_pickup_schema
    [] t = "track_shipment" -> track_shipment_schema
    [] t = "fetch_labels" -> fetch_labels_schema
    [] t = "list_addresses" -> list_addresses_schema
    [] t = "get_address" -> get_address_schema
    [] t = "add_address" -> add_address_schema
    [] t = "edit_address" -> edit_address_schema
    [] t = "delete_address" -> delete_address_schema
    [] t = "list_carriers" -> list_carriers_schema
    [] t = "get_carrier" -> get_carrier_schema
    [] t = "get_account_info" -> get_account_info_schema
    [] t = "get_shipping_stats" -> get_shipping_stats_schema

------------------------------------------------------------------------------
(* Validation: what the schema accepts, and the parsed parameters (declared *)
(* fields only, defaults applied to the omitted ones).                      *)

Present(o, f) == f \in DOMAIN o /\ o[f] # Undef

ScalarOk(type, v) ==
  CASE type = "string" -> IsStr(v)
    [] type = "number" -> IsNum(v)
    [] OTHER -> FALSE

\* a z.object of scalar fields
FlatValid(schema, o) ==
  \A f \in DOMAIN schema :
    IF Present(o, f) THEN ScalarOk(schema[f].type, o[f]) ELSE ~schema[f].required

FlatParse(schema, o) ==
  [f \in {g \in DOMAIN schema : Present(o, g) \/ schema[g].hasDefault} |->
     IF Present(o, f) THEN o[f] ELSE schema[f].default]

TypeOk(type, v) ==
  CASE type = "address" -> IsObj(v) /\ FlatValid(shipment_address_schema, v.obj)
    [] type = "receiver_address" ->
         IsObj(v) /\ FlatValid(receiver_address_schema, v.obj)
    [] type = "products" ->
         /\ IsArr(v)
         /\ \A n \in DOMAIN v.arr :
              IsObj(v.arr[n]) /\ FlatValid(product_schema, v.arr[n].obj)
    [] OTHER -> ScalarOk(type, v)

ParseValue(type, v) ==
  CASE type = "address" -> Obj(FlatParse(shipment_address_schema, v.obj))
    [] type = "receiver_address" -> Obj(FlatParse(receiver_address_schema, v.obj))
    [] type = "products" ->
         Arr([n \in DOMAIN v.arr |-> Obj(FlatParse(product_schema, v.arr[n].obj))])
    [] OTHER -> v

\* the schema accepts the arguments
Valid(schema, a) ==
  \A f \in DOMAIN schema :
    IF Present(a, f) THEN TypeOk(schema[f].type, a[f]) ELSE ~schema[f].required

\* undeclared arguments kept, as a passthrough object schema would
ParsePassthrough(schema, a) ==
  [f \in {g \in DOMAIN schema : Present(a, g) \/ schema[g].hasDefault} |->
     IF Present(a, f) THEN ParseValue(schema[f].type, a[f]) ELSE schema[f].default]
    @@ [f \in DOMAIN a \ DOMAIN schema |-> a[f]]

\* the parameters handed to the handler
Parse(schema, a) ==
  [f \in {g \in DOMAIN schema : Present(a, g) \/ schema[g].hasDefault} |->
     IF Present(a, f) THEN ParseValue(schema[f].type, a[f]) ELSE schema[f].default]

------------------------------------------------------------------------------
(* Tool handlers: each yields the arguments of its one shipiRequest call.   *)

Call(endpoint, params, method) ==
  [endpoint |-> endpoint, params |-> params, method |-> method]

\* (p) => ({ prod_name: p.name || "Package", ... })
ProductEntry(p) ==
  Obj([prod_name |-> Or(Get(p.obj, "name"), Str("Package")),
       prod_weight |-> Get(p.obj, "weight"),
       prod_quantity |-> Or(Get(p.obj, "quantity"), Num(1)),
       prod_price |-> Or(Get(p.obj, "price"), Num(0)),
       prod_depth |-> Or(Get(p.obj, "length"), Num(1)),
       prod_width |-> Or(Get(p.obj, "width"), Num(1)),
       prod_height |-> Or(Get(p.obj, "height"), Num(1))])

\* products.map(...)
ProductsMap(products) ==
  Arr([n \in DOMAIN products.arr |-> ProductEntry(products.arr[n])])

list_shipments(params) ==
  Call("api/v1/shipments.php", Spread([action |-> Str("list")], params), "GET")

get_shipment(params) ==
  Call("api/v1/shipments.php", Spread([action |-> Str("get")], params), "GET")

search_shipments(params) ==
  Call("api/v1/shipments.php", Spread([action |-> Str("search")], params), "GET")

create_shipment(params) ==
  LET key == Or(Get(params, "integration_key"), Str(DEFAULT_KEY))
      shipper == params.shipper.obj
      recipient == params.recipient.obj
      meta ==
        [label |-> Str("d"),
         s_name |-> Get(shipper, "name"),
         s_company |-> Or(Get(shipper, "company"), Str("")),
         s_address1 |-> Get(shipper, "address1"),
         s_address2 |-> Or(Get(shipper, "address2"), Str("")),
         s_city |-> Get(shipper, "city"),
         s_state |-> Get(shipper, "state"),
         s_postal |-> Get(shipper, "postal"),
         s_country |-> Get(shipper, "country"),
         s_phone |-> Or(Get(shipper, "phone"), Str("")),
         s_email |-> Or(Get(shipper, "email"), Str("")),
         t_name |-> Get(recipient, "name"),
         t_company |-> Or(Get(recipient, "company"), Str("")),
         t_address1 |-> Get(recipient, "address1"),
         t_address2 |-> Or(Get(recipient, "address2"), Str("")),
         t_city |-> Get(recipient, "city"),
         t_state |-> Get(recipient, "state"),
         t_postal |-> Get(recipient, "postal"),
         t_country |-> Get(recipient, "country"),
         t_phone |-> Or(Get(recipient, "phone"), Str("")),
         t_email |-> Or(Get(recipient, "email"), Str("")),
         service_code |-> Or(Get(params, "service_code"), Str("")),
         carrier_id |-> Get(params, "carrier_id"),
         products |-> ProductsMap(params.products)]
  IN Call("label_api/create_shipment.php",
          [integrated_key |-> key, meta |-> Obj(meta)], "POST")


\* the caller's parameters forwarded next to del_ref
cancel_shipment_spread(params) ==
  LET key == Or(Get(params, "integration_key"), Str(DEFAULT_KEY))
  IN Call("cancel_api/delete_shipment.php",
          Spread(params, [integrated_key |-> key, del_ref |-> Get(params, "shipment_id")]),
          "POST")

\* a built-in key used when none is configured
cancel_shipment_builtin_key(params) ==
  LET key == Or(Or(Get(params, "integration_key"), Str(DEFAULT_KEY)), Str("public"))
  IN Call("cancel_api/delete_shipment.php",
          [integrated_key |-> key, del_ref |-> Get(params, "shipment_id")], "POST")

cancel_shipment(params) ==
  LET key == Or(Get(params, "integration_key"), Str(DEFAULT_KEY))
  IN Call("cancel_api/delete_shipment.php",
          [integrated_key |-> key, del_ref |-> Get(params, "shipment_id")], "POST")

get_shipping_rates(params) ==
  LET key == Or(Get(params, "integration_key"), Str(DEFAULT_KEY))
  IN Call("rates_api/shipi_rates.php",
          [integration_key |-> key,
           receiver_address |-> Get(params, "receiver_address"),
           products |-> ProductsMap(params.products),
           account_id |-> Get(params, "account_id")], "POST")

schedule_pickup(params) ==
  LET key == Or(Get(params, "integration_key"), Str(DEFAULT_KEY))
      meta ==
        [f \in {g \in {"pickup_date", "pickup_time"} : Truthy(Get(params, g))} |->
           params[f]]
  IN Call("pickup_api/create_pickup.php",
          [integrated_key |-> key, order_id |-> Get(params, "order_id"),
           carrier_type |-> Get(params, "carrier_type"), label |-> Str("d"),
           meta |-> Obj(meta)], "POST")

\* the method argument left out, so that shipiRequest's default applies
track_shipment_default_method(params) ==
  Call("api/v1/tracking_url.php",
       [tracking_number |-> Get(params, "tracking_number"),
        carrier |-> Or(Get(params, "carrier"), Str(""))], "POST")

track_shipment(params) ==
  Call("api/v1/tracking_url.php",
       [tracking_number |-> Get(params, "tracking_number"),
        carrier |-> Or(Get(params, "carrier"), Str(""))], "GET")

fetch_labels(params) ==
  LET key == Or(Get(params, "integration_key"), Str(DEFAULT_KEY))
  IN Call("label_api/fetch_labels.php",
          [integration_key |-> key, page |-> Get(params, "page"),
           limit |-> Get(params, "limit"), printed |-> Get(params, "printed")], "GET")

list_addresses(params) ==
  Call("api/v1/addresses.php", Spread([action |-> Str("list")], params), "GET")

get_address(params) ==
  Call("api/v1/addresses.php",
       [action |-> Str("get"), id |-> Get(params, "id"),
        integration_key |-> Get(params, "integration_key")], "GET")

add_address(params) ==
  Call("api/v1/addresses.php", Spread([action |-> Str("add")], params), "POST")

edit_address(params) ==
  Call("api/v1/addresses.php", Spread([action |-> Str("edit")], params), "POST")

delete_address(params) ==
  Call("api/v1/addresses.php",
       [action |-> Str("delete"), id |-> Get(params, "id"),
        integration_key |-> Get(params, "integration_key")], "POST")

list_carriers(params) ==
  Call("api/v1/carriers.php", Spread([action |-> Str("list")], params), "GET")

get_carrier(params) ==
  Call("api/v1/carriers.php",
       [action |-> Str("get"), id |-> Get(params, "id"),
        integration_key |-> Get(params, "integration_key")], "GET")

get_account_info(params) ==
  Call("api/v1/account.php", Spread(Empty, params), "GET")

get_shipping_stats(params) ==
  Call("api/v1/stats.php", Spread(Empty, params), "GET")

\* the handler registered under the tool's name
Handler(t, params) ==
  CASE t = "list_shipments" -> list_shipments(params)
    [] t = "get_shipment" -> get_shipment(params)
    [] t = "search_shipments" -> search_shipments(params)
    [] t = "create_shipment" -> create_shipment(params)
    [] t = "cancel_shipment" -> cancel_shipment(params)
    [] t = "get_shipping_rates" -> get_shipping_rates(params)
    [] t = "schedule_pickup" -> schedule_pickup(params)
    [] t = "track_shipment" -> track_shipment(params)
    [] t = "fetch_labels" -> fetch_labels(params)
    [] t = "list_addresses" -> list_addresses(params)
    [] t = "get_address" -> get_address(params)
    [] t = "add_address" -> add_address(params)
    [] t = "edit_address" -> edit_address(params)
    [] t = "delete_address" -> delete_address(params)
    [] t = "list_carriers" -> list_carriers(params)
    [] t = "get_carrier" -> get_carrier(params)
    [] t = "get_account_info" -> get_account_info(params)
    [] t = "get_shipping_stats" -> get_shipping_stats(params)

------------------------------------------------------------------------------
(* shipiRequest, up to the fetch call: the outbound request                 *)

\* JSON.stringify of a request body: properties whose value is undefined
\* are left out, at every depth
RECURSIVE Serialize(_)
Serialize(v) ==
  CASE IsObj(v) ->
         Obj([f \in {g \in DOMAIN v.obj : v.obj[g] # Undef} |-> Serialize(v.obj[f])])
    [] IsArr(v) -> Arr([n \in DOMAIN v.arr |-> Serialize(v.arr[n])])
    [] OTHER -> v


\* every parameter set, whatever its value
QueryStringUnfiltered(params, key) ==
  [k \in DOMAIN params |-> String(params[k])] @@ ("integration_key" :> String(key))

\* the URLSearchParams built for a GET
QueryString(params, key) ==
  LET own == IF Truthy(key) THEN "integration_key" :> String(key) ELSE Empty
      kept == {k \in DOMAIN params :
                 params[k] # Undef /\ params[k] # Str("")}
  IN [k \in kept |-> String(params[k])] @@ own

\* the object serialized as the body of a POST
PostBody(params, key) ==
  IF Truthy(key) /\ ~Truthy(Get(params, "integration_key"))
  THEN ("integration_key" :> key) @@ params
  ELSE params

NoBody == [none |-> TRUE]

BuildRequest(endpoint, params, method) ==
  LET url == BASE_URL \o "/" \o endpoint
      key == Or(Get(params, "integration_key"), Str(DEFAULT_KEY))
  IN IF method = "GET"
     THEN [method |-> "GET", url |-> url, query |-> QueryString(params, key),
           body |-> NoBody]
     ELSE [method |-> "POST", url |-> url, query |-> Empty,
           body |-> Serialize(Obj(PostBody(params, key)))]

------------------------------------------------------------------------------
(* JSON on the response side.  A JSON text is kept as its token tree:       *)
(*   [lit |-> "null" | "true" | "false"], [numlit |-> [neg, digits, exp]]   *)
(*   (the numeral -?digits(e exp)?), [strlit |-> s],                        *)
(*   [members |-> <<[key, value], ...>>] and [elems |-> <<...>>];           *)
(* whitespace and indentation are not part of the tree.  Parsed values add  *)
(* to the values above: [null |-> TRUE], [bool |-> b], the finite doubles   *)
(* [dbl |-> [neg, m, e]] (m * 10^e, m without trailing zeros) and           *)
(* [inf |-> neg] (Infinity, -Infinity).                                     *)

JNull == [lit |-> "null"]

JBool(b) == [lit |-> IF b THEN "true" ELSE "false"]

JNumber(neg, digits, exp) == [numlit |-> [neg |-> neg, digits |-> digits, exp |-> exp]]

JString(s) == [strlit |-> s]

JObject(members) == [members |-> members]

JArray(elems) == [elems |-> elems]

Member(k, v) == [key |-> k, value |-> v]

NotJSON == [notjson |-> TRUE]

Null == [null |-> TRUE]

Bool(b) == [bool |-> b]

Dbl(neg, m, e) == [dbl |-> [neg |-> neg, m |-> m, e |-> e]]

Infinity(neg) == [inf |-> neg]

RECURSIVE StripZeros(_, _)
StripZeros(d, x) ==
  IF d # 0 /\ d % 10 = 0 THEN StripZeros(d \div 10, x + 1) ELSE <<d, x>>

RECURSIVE Digits(_)
Digits(d) == IF d < 10 THEN 1 ELSE 1 + Digits(d \div 10)

\* The Number a numeral denotes: the nearest double, Infinity above
\* Number.MAX_VALUE (1.7976931348623157e308).  Exact for numerals of up to
\* three significant digits; 0 and -0 are the same number.
ToNumber(n) ==
  LET sz == StripZeros(n.digits, n.exp)
      m == sz[1]
      e == sz[2]
      order == Digits(m) - 1 + e
      lead == IF Digits(m) = 1 THEN m * 100 ELSE IF Digits(m) = 2 THEN m * 10 ELSE m
  IN IF m = 0 THEN Dbl(FALSE, 0, 0)
     ELSE IF order > 308 \/ (order = 308 /\ lead >= 180) THEN Infinity(n.neg)
     ELSE Dbl(n.neg, m, e)

\* the index of the last member with key k: a repeated key keeps its last value
LastOf(members, k) ==
  CHOOSE n \in DOMAIN members :
    /\ members[n].key = k
    /\ \A j \in DOMAIN members : members[j].key = k => j <= n

\* JSON.parse on a token tree
RECURSIVE JSONparse(_)
JSONparse(t) ==
  CASE DOMAIN t = {"lit"} ->
         IF t.lit = "null" THEN Null ELSE Bool(t.lit = "true")
    [] DOMAIN t = {"numlit"} -> ToNumber(t.numlit)
    [] DOMAIN t = {"strlit"} -> Str(t.strlit)
    [] DOMAIN t = {"members"} ->
         Obj([k \in {t.members[n].key : n \in DOMAIN t.members} |->
                JSONparse(t.members[LastOf(t.members, k)].value)])
    [] DOMAIN t = {"elems"} ->
         Arr([n \in DOMAIN t.elems |-> JSONparse(t.elems[n])])

RECURSIVE SeqOf(_)
SeqOf(S) ==
  IF S = {} THEN <<>>
  ELSE LET x == CHOOSE y \in S : TRUE IN <<x>> \o SeqOf(S \ {x})

\* JSON.stringify on a value: a non-finite number is written null, a
\* property whose value is undefined is left out
RECURSIVE JSONstringify(_)
JSONstringify(v) ==
  CASE v = Null -> JNull
    [] DOMAIN v = {"bool"} -> JBool(v.bool)
    [] DOMAIN v = {"dbl"} -> JNumber(v.dbl.neg, v.dbl.m, v.dbl.e)
    [] DOMAIN v = {"inf"} -> JNull
    [] IsStr(v) -> JString(v.str)
    [] IsObj(v) ->
         LET ks == SeqOf({k \in DOMAIN v.obj : v.obj[k] # Undef})
         IN JObject([n \in DOMAIN ks |-> Member(ks[n], JSONstringify(v.obj[ks[n]]))])
    [] IsArr(v) -> JArray([n \in DOMAIN v.arr |-> JSONstringify(v.arr[n])])

\* the characters of a token tree, written without whitespace
RECURSIVE Render(_)
RECURSIVE RenderList(_, _)
Render(t) ==
  CASE DOMAIN t = {"lit"} -> t.lit
    [] DOMAIN t = {"numlit"} ->
         (IF t.numlit.neg THEN "-" ELSE "") \o ToString(t.numlit.digits)
           \o (IF t.numlit.exp > 0 THEN "e" \o ToString(t.numlit.exp) ELSE "")
    [] DOMAIN t = {"strlit"} -> "\"" \o t.strlit \o "\""
    [] DOMAIN t = {"members"} -> "{" \o RenderList(t.members, 1) \o "}"
    [] DOMAIN t = {"elems"} -> "[" \o RenderList(t.elems, 1) \o "]"
RenderList(s, n) ==
  IF n > Len(s) THEN ""
  ELSE (IF n > 1 THEN "," ELSE "")
         \o (IF DOMAIN s[n] = {"key", "value"}
             THEN "\"" \o s[n].key \o "\":" \o Render(s[n].value)
             ELSE Render(s[n]))
         \o RenderList(s, n + 1)

------------------------------------------------------------------------------
(* shipiRequest, after the fetch call, and toText                           *)

\* the length of the raw excerpt of a body that is not JSON
RawLimit == 500

Min(a, b) == IF a < b THEN a ELSE b

\* text.substring(from, to)
substring(text, from, to) == SubSeq(text, from + 1, Min(to, Len(text)))

Returned(data) == [returned |-> data]

Thrown(message) == [thrown |-> message]

\* catch (err) { return { status: "error", message: ... } }
CatchRethrows(message) == Thrown(message)

Catch(message) ==
  Returned(Obj([status |-> Str("error"),
                message |-> Str("Request failed: " \o message)]))


\* the whole body kept as the excerpt
ParseBodyWholeRaw(body) ==
  IF body.syntax = NotJSON
  THEN Returned(Obj([status |-> Str("error"),
                     message |-> Str("Invalid JSON response"),
                     raw |-> Str(body.text)]))
  ELSE Returned(JSONparse(body.syntax))

\* try { return JSON.parse(text) } catch { return { ..., raw } }
ParseBody(body) ==
  IF body.syntax = NotJSON
  THEN Returned(Obj([status |-> Str("error"),
                     message |-> Str("Invalid JSON response"),
                     raw |-> Str(substring(body.text, 0, RawLimit))]))
  ELSE Returned(JSONparse(body.syntax))

\* JSON.stringify(data, null, 2)
toText(data) == JSONstringify(data)

\* return { content: [{ type: "text", text: toText(data) }] }, or the
\* exception leaving the handler
HandlerResult(completion) ==
  IF "returned" \in DOMAIN completion
  THEN [content |-> <<[type |-> "text", text |-> toText(completion.returned)]>>]
  ELSE [exception |-> completion.thrown]

------------------------------------------------------------------------------
(* The environment: configuration, the host's invocations, the backend      *)

\* process.env.SHIPI_BASE_URL || "https://app.myshipi.com"
BaseUrls == {"https://app.myshipi.com", "http://mock.test"}

\* process.env.SHIPI_INTEGRATION_KEY || ""
DefaultKeys == {"", "ENVKEY"}

\* one argument, omitted or given one of vals
Maybe(name, vals) == {Empty} \cup {name :> v : v \in vals}

\* arguments put together from independent parts
Both(A, B) == {a @@ b : a \in A, b \in B}

KeyArgs == Maybe("integration_key", {Str(""), Str("K1")})

\* a field no schema declares
ExtraArgs == Maybe("action", {Str("delete")})

Jane ==
  Obj([name |-> Str("Jane"), address1 |-> Str("1 Main"), city |-> Str("NYC"),
       state |-> Str("NY"), postal |-> Str("10001"), country |-> Str("US")])

Bob ==
  Obj([name |-> Str("Bob"), company |-> Str("ACME"), address1 |-> Str("2 Oak"),
       address2 |-> Str("Apt 2"), city |-> Str("LA"), state |-> Str("CA"),
       postal |-> Str("90001"), country |-> Str("US"), phone |-> Str("555"),
       email |-> Str("bob@acme.test")])

\* no city: rejected by the address schemas
NoCity ==
  Obj([name |-> Str("Ann"), address1 |-> Str("3 Elm"), state |-> Str("TX"),
       postal |-> Str("73301"), country |-> Str("US")])

P5 == Obj([weight |-> Num(5)])

PZero ==
  Obj([name |-> Str("Box"), weight |-> Num(2), quantity |-> Num(0),
       price |-> Num(0), length |-> Num(0), width |-> Num(3), height |-> Num(4)])

PFull ==
  Obj([name |-> Str("Crate"), weight |-> Num(7), quantity |-> Num(2),
       price |-> Num(10), length |-> Num(3), width |-> Num(4), height |-> Num(6)])

\* no weight: rejected by the product schema
PNoWeight == Obj([name |-> Str("Box")])

ProductLists ==
  {Arr(<<>>), Arr(<<P5>>), Arr(<<PZero>>), Arr(<<PFull, P5>>), Arr(<<PNoWeight>>)}

\* valid arguments with one of the fields fs left out
Omitting(a, fs) == {[k \in DOMAIN a \ {f} |-> a[k]] : f \in fs}

\* the arguments the host may send to a tool
ToolArgs(t) ==
  CASE t = "list_shipments" ->
         Both(Both(KeyArgs, ExtraArgs),
              Both(Maybe("page", {Num(0), Num(2)}),
                   Maybe("status", {Str(""), Str("new")})))
    [] t = "get_shipment" ->
         Both(Both(KeyArgs, ExtraArgs),
              Both(Maybe("id", {Str(""), Str("S1")}), Maybe("order_id", {Str("O1")})))
    [] t = "search_shipments" ->
         Both(Both(KeyArgs, ExtraArgs),
              Both(Maybe("q", {Str(""), Str("ORD-1")}), Maybe("limit", {Num(5)})))
    [] t = "create_shipment" ->
         Both(Both(KeyArgs, Maybe("carrier_id", {Num(7)})),
              Both(Both(Maybe("shipper", {Jane, Bob, NoCity}),
                        Maybe("service_code", {Str("GROUND")})),
                   Both({"recipient" :> Bob}, {"products" :> l : l \in ProductLists})))
           \cup Omitting([carrier_id |-> Num(7), shipper |-> Jane, recipient |-> Bob,
                          products |-> Arr(<<P5>>)], {"recipient", "products"})
    [] t = "cancel_shipment" ->
         Both(KeyArgs, Maybe("shipment_id", {Num(0), Num(42)}))
    [] t = "get_shipping_rates" ->
         Both(Both(KeyArgs, Maybe("account_id", {Num(3)})),
              Both(Maybe("receiver_address", {Jane, NoCity}),
                   {"products" :> l : l \in ProductLists}))
           \cup Omitting([receiver_address |-> Jane, products |-> Arr(<<P5>>)],
                         {"products"})
    [] t = "schedule_pickup" ->
         Both(Both(KeyArgs, Maybe("order_id", {Str("O1")})),
              Both(Maybe("carrier_type", {Str("fedex")}),
                   Maybe("pickup_date", {Str(""), Str("2024-01-31")})))
    [] t = "track_shipment" ->
         Both(KeyArgs,
              Both(Maybe("tracking_number", {Str(""), Str("794987330490")}),
                   Maybe("carrier", {Str(""), Str("ups")})))
    [] t = "fetch_labels" ->
         Both(KeyArgs,
              Both(Maybe("page", {Num(2)}), Maybe("printed", {Str(""), Str("printed")})))
    [] t = "list_addresses" ->
         Both(Both(KeyArgs, ExtraArgs), Maybe("type", {Str(""), Str("shipper")}))
    [] t = "get_address" -> Both(KeyArgs, Maybe("id", {Num(0), Num(9)}))
    [] t = "add_address" ->
         Both(Both(Both(KeyArgs, ExtraArgs), Maybe("name", {Str("Jane")})),
              Both(Maybe("company", {Str("ACME")}),
                   {[address1 |-> Str("1 Main"), city |-> Str("NYC"),
                     country |-> Str("US"), postal |-> Str("10001")]}))
           \cup Omitting([name |-> Str("Jane"), address1 |-> Str("1 Main"),
                          city |-> Str("NYC"), country |-> Str("US"),
                          postal |-> Str("10001")],
                         {"address1", "city", "country", "postal"})
    [] t = "edit_address" ->
         Both(Both(KeyArgs, ExtraArgs),
              Both(Maybe("id", {Num(9)}), Maybe("name", {Str(""), Str("Jane")})))
    [] t = "delete_address" -> Both(KeyArgs, Maybe("id", {Num(9)}))
    [] t = "list_carriers" -> Both(KeyArgs, ExtraArgs)
    [] t = "get_carrier" -> Both(KeyArgs, Maybe("id", {Num(0), Num(9)}))
    [] t = "get_account_info" -> Both(KeyArgs, ExtraArgs)
    [] t = "get_shipping_stats" ->
         Both(KeyArgs,
              Both(Maybe("period", {Str(""), Str("week")}),
                   Maybe("date_from", {Str("2024-01-01")})))

\* reasons for which fetch rejects
NetworkErrors == {"connect ECONNREFUSED", "network timeout"}

\* reasons for which reading the response body rejects
ReadErrors == {"Premature close"}

RECURSIVE Chars(_, _)
Chars(lo, hi) ==
  IF lo > hi THEN ""
  ELSE IF lo = hi THEN ToString(lo % 10)
  ELSE Chars(lo, (lo + hi) \div 2) \o Chars((lo + hi) \div 2 + 1, hi)

\* a body of n characters that is not JSON
Page(n) == "<" \o Chars(2, n)

\* bodies that are not JSON, around the length of the excerpt
TextBodies ==
  {"", "<html>error</html>", Page(RawLimit - 1), Page(RawLimit),
   Page(RawLimit + 1), Page(RawLimit + 2)}

\* bodies that are JSON
JsonBodies ==
  {JObject(<<Member("status", JString("success")),
             Member("data", JArray(<<JObject(<<Member("id", JNumber(FALSE, 1, 0))>>),
                                     JObject(<<Member("id", JNumber(TRUE, 25, 1))>>)>>))>>),
   JObject(<<Member("status", JString("error")),
             Member("message", JString("Invalid carrier"))>>),
   JObject(<<Member("a", JBool(TRUE)), Member("a", JNumber(FALSE, 120, 0))>>),
   JObject(<<Member("balance", JNumber(FALSE, 1, 999))>>),
   JNull,
   JString("ok"),
   JArray(<<>>)}

Bodies ==
  {[text |-> t, syntax |-> NotJSON] : t \in TextBodies}
    \cup {[text |-> Render(j), syntax |-> j] : j \in JsonBodies}

------------------------------------------------------------------------------
(* The state machine *)

NoResult == [none |-> TRUE]

Idle ==
  [pc |-> "idle", tool |-> "", args |-> Empty, params |-> Empty,
   handlerRan |-> FALSE, requests |-> <<>>, response |-> NoResult,
   result |-> NoResult]

\* the invalid-parameters error the server answers with instead of calling
\* the handler
ValidationError == [isError |-> TRUE, error |-> "ValidationError"]


\* a request that is sent again
FetchTwice(log, req) == log \o <<req, req>>

\* fetchModule.default(...): one request handed to the network
Fetch(log, req) == Append(log, req)

Init ==
  /\ BASE_URL \in BaseUrls
  /\ DEFAULT_KEY \in DefaultKeys
  /\ proc = "starting"
  /\ exitCode = -1
  /\ stderr = <<>>
  /\ calls = [i \in Slots |-> Idle]

\* main(): server.connect(transport) resolves
ConnectOk ==
  /\ proc = "starting"
  /\ proc' = "running"
  /\ stderr' = Append(stderr, "Shipi MCP Server running (stdio transport)")
  /\ UNCHANGED <<BASE_URL, DEFAULT_KEY, exitCode, calls>>

\* main().catch: the error is reported and the process exits with status 1
ConnectFails ==
  /\ proc = "starting"
  /\ stderr' = Append(stderr, "Fatal error:")
  /\ proc' = "exited"
  /\ exitCode' = 1
  /\ UNCHANGED <<BASE_URL, DEFAULT_KEY, calls>>

\* the host calls tool t with arguments a
Invoke(i, t, a) ==
  /\ proc = "running"
  /\ calls[i].pc = "idle"
  /\ calls' = [calls EXCEPT ![i] = [Idle EXCEPT !.pc = "received", !.tool = t, !.args = a]]
  /\ UNCHANGED <<BASE_URL, DEFAULT_KEY, proc, exitCode, stderr>>

\* the arguments are checked against the tool's schema
Validate(i) ==
  /\ calls[i].pc = "received"
  /\ LET c == calls[i]
         schema == ToolSchema(c.tool)
     IN calls' = [calls EXCEPT ![i] =
          IF Valid(schema, c.args)
          THEN [c EXCEPT !.pc = "validated", !.params = Parse(schema, c.args)]
          ELSE [c EXCEPT !.pc = "done", !.result = ValidationError]]
  /\ UNCHANGED <<BASE_URL, DEFAULT_KEY, proc, exitCode, stderr>>

\* the request built from a module-level "current call": whichever
\* validated call was stored last
DispatchSharedParams(i) ==
  /\ calls[i].pc = "validated"
  /\ \E j \in Slots :
       /\ calls[j].pc = "validated"
       /\ LET c == calls[i]
              call == Handler(calls[j].tool, calls[j].params)
              req == BuildRequest(call.endpoint, call.params, call.method)
          IN calls' = [calls EXCEPT ![i] =
               [c EXCEPT !.pc = "awaiting", !.handlerRan = TRUE,
                         !.requests = Fetch(c.requests, req)]]
  /\ UNCHANGED <<BASE_URL, DEFAULT_KEY, proc, exitCode, stderr>>

\* the handler runs up to its await of fetch
Dispatch(i) ==
  /\ calls[i].pc = "validated"
  /\ LET c == calls[i]
         call == Handler(c.tool, c.params)
         req == BuildRequest(call.endpoint, call.params, call.method)
     IN calls' = [calls EXCEPT ![i] =
          [c EXCEPT !.pc = "awaiting", !.handlerRan = TRUE,
                    !.requests = Fetch(c.requests, req)]]
  /\ UNCHANGED <<BASE_URL, DEFAULT_KEY, proc, exitCode, stderr>>

Finish(i, response, completion) ==
  calls' = [calls EXCEPT ![i] =
    [calls[i] EXCEPT !.pc = "done", !.response = response,
                     !.result = HandlerResult(completion)]]

\* the rejection not caught: the process dies of the unhandled rejection
FetchRejectsCrashes(i, message) ==
  /\ calls[i].pc = "awaiting"
  /\ stderr' = Append(stderr, message)
  /\ proc' = "exited"
  /\ exitCode' = 1
  /\ UNCHANGED <<BASE_URL, DEFAULT_KEY, calls>>

\* fetch rejects
FetchRejects(i, message) ==
  /\ calls[i].pc = "awaiting"
  /\ Finish(i, [kind |-> "fetch rejects", message |-> message], Catch(message))
  /\ UNCHANGED <<BASE_URL, DEFAULT_KEY, proc, exitCode, stderr>>

\* response.text() rejects
TextRejects(i, message) ==
  /\ calls[i].pc = "awaiting"
  /\ Finish(i, [kind |-> "text rejects", message |-> message], Catch(message))
  /\ UNCHANGED <<BASE_URL, DEFAULT_KEY, proc, exitCode, stderr>>

\* the backend answers with a body
BodyArrives(i, body) ==
  /\ calls[i].pc = "awaiting"
  /\ Finish(i, [kind |-> "body", body |-> body], ParseBody(body))
  /\ UNCHANGED <<BASE_URL, DEFAULT_KEY, proc, exitCode, stderr>>

\* the result is sent to the host; nothing of the call is kept
Return(i) ==
  /\ calls[i].pc = "done"
  /\ calls' = [calls EXCEPT ![i] = Idle]
  /\ UNCHANGED <<BASE_URL, DEFAULT_KEY, proc, exitCode, stderr>>

\* a host that awaits each result before its next call
HostIdle == \A j \in Slots : calls[j].pc = "idle"

Next ==
  \/ ConnectOk
  \/ ConnectFails
  \/ \E i \in Slots, t \in ToolNames : \E a \in ToolArgs(t) : HostIdle /\ Invoke(i, t, a)
  \/ \E i \in Slots : Validate(i)
  \/ \E i \in Slots : Dispatch(i)
  \/ \E i \in Slots, m \in NetworkErrors : FetchRejects(i, m)
  \/ \E i \in Slots, m \in ReadErrors : TextRejects(i, m)
  \/ \E i \in Slots, b \in Bodies : BodyArrives(i, b)
  \/ \E i \in Slots : Return(i)

Spec == Init /\ [][Next]_vars

------------------------------------------------------------------------------
(* A host that does not await a result before its next call: the calls of   *)
(* the slots interleave at every await.  Each slot's arguments and backend  *)
(* responses carry values of its own, so that a value is traced to the call *)
(* it was supplied to.                                                      *)

Tag(i) == ToString(i)

ConcTools == {"list_shipments", "cancel_shipment", "track_shipment"}

ConcArgs(i, t) ==
  CASE t = "list_shipments" ->
         Both(Maybe("integration_key", {Str("K" \o Tag(i))}),
              {[status |-> Str("S" \o Tag(i))]})
    [] t = "cancel_shipment" ->
         Both(Maybe("integration_key", {Str("K" \o Tag(i))}),
              {[shipment_id |-> Num(40 + i)]})
           \cup {[integration_key |-> Str("K" \o Tag(i))]}
    [] t = "track_shipment" -> {[tracking_number |-> Str("T" \o Tag(i))]}

ConcBodies(i) ==
  {[text |-> "busy " \o Tag(i), syntax |-> NotJSON]}
    \cup {[text |-> Render(j), syntax |-> j] :
            j \in {JObject(<<Member("ref", JString("R" \o Tag(i)))>>)}}

ConcNext ==
  \/ ConnectOk
  \/ ConnectFails
  \/ \E i \in Slots, t \in ConcTools : \E a \in ConcArgs(i, t) : Invoke(i, t, a)
  \/ \E i \in Slots : Validate(i)
  \/ \E i \in Slots : Dispatch(i)
  \/ \E i \in Slots : FetchRejects(i, "connect ECONNREFUSED")
  \/ \E i \in Slots : TextRejects(i, "Premature close")
  \/ \E i \in Slots : \E b \in ConcBodies(i) : BodyArrives(i, b)
  \/ \E i \in Slots : Return(i)

ConcSpec == Init /\ [][ConcNext]_vars

------------------------------------------------------------------------------
(* Properties *)

\* the calls that are under way or finished
Active == {i \in Slots : calls[i].pc # "idle"}

\* the calls whose handler has returned or thrown
Handled == {i \in Slots : calls[i].pc = "done" /\ calls[i].handlerRan}

\* the value the text of a tool result denotes
Payload(i) == JSONparse(calls[i].result.content[1].text)

\* the result is one text content item
OneTextItem(i) ==
  /\ DOMAIN calls[i].result = {"content"}
  /\ Len(calls[i].result.content) = 1
  /\ calls[i].result.content[1].type = "text"

KeyFields == {"integration_key", "integrated_key"}

\* the credentials a request carries, in its query string or its body
Credentials(r) ==
  {r.query[k] : k \in DOMAIN r.query \cap KeyFields}
    \cup (IF r.method = "POST"
          THEN {r.body.obj[k].str : k \in DOMAIN r.body.obj \cap KeyFields}
          ELSE {})

\* the parameters each tool's schema declares without optional()
RequiredParams(t) ==
  CASE t = "search_shipments" -> {"q"}
    [] t = "create_shipment" -> {"carrier_id", "shipper", "recipient", "products"}
    [] t = "cancel_shipment" -> {"shipment_id"}
    [] t = "get_shipping_rates" -> {"receiver_address", "products"}
    [] t = "schedule_pickup" -> {"order_id", "carrier_type"}
    [] t = "track_shipment" -> {"tracking_number"}
    [] t \in {"get_address", "edit_address", "delete_address", "get_carrier"} -> {"id"}
    [] t = "add_address" -> {"name", "address1", "city", "country", "postal"}
    [] OTHER -> {}

OmitsRequired(i) == \E f \in RequiredParams(calls[i].tool) : f \notin DOMAIN calls[i].args

\* C1: an invocation that omits a required parameter is rejected by
\* validation: its handler never runs, it issues no request, and it ends
\* with the validation error.
C1_MissingRequiredRejected ==
  \A i \in Active :
    OmitsRequired(i) =>
      /\ calls[i].pc \in {"received", "done"}
      /\ ~calls[i].handlerRan
      /\ calls[i].requests = <<>>
      /\ calls[i].pc = "done" => calls[i].result = ValidationError

C1_Witness ==
  \E i \in Slots :
    /\ calls[i].pc = "done"
    /\ calls[i].tool = "search_shipments"
    /\ "q" \notin DOMAIN calls[i].args
    /\ calls[i].result = ValidationError
    /\ calls[i].requests = <<>>

\* C2: with a non-empty explicit integration_key given to a tool that
\* declares the parameter, every credential of the request is that key
\* (so the default key is not carried beside it); with the key omitted,
\* every credential is the default key.
C2_ExplicitKeyOverridesDefault ==
  \A i \in Active :
    \A n \in DOMAIN calls[i].requests :
      LET a == calls[i].args
          r == calls[i].requests[n]
      IN /\ ("integration_key" \in DOMAIN ToolSchema(calls[i].tool)
               /\ Truthy(Get(a, "integration_key")))
              => Credentials(r) = {a.integration_key.str}
         /\ ("integration_key" \notin DOMAIN a /\ DEFAULT_KEY # "")
              => Credentials(r) = {DEFAULT_KEY}

\* C3: an invocation that passes validation issues exactly one request,
\* whatever the backend or the network does; no invocation issues more.
C3_ExactlyOneRequest ==
  \A i \in Active :
    /\ Len(calls[i].requests) <= 1
    /\ calls[i].pc = "awaiting" => Len(calls[i].requests) = 1
    /\ (calls[i].pc = "done" /\ calls[i].result # ValidationError)
         => Len(calls[i].requests) = 1

C3_Witness ==
  \E i \in Handled :
    /\ calls[i].result # ValidationError
    /\ calls[i].response.kind = "fetch rejects"
    /\ Len(calls[i].requests) = 1

\* C4: when the backend's body is JSON, the result is one text item whose
\* text denotes exactly the value the body denotes.
C4_JsonBodyVerbatim ==
  \A i \in Handled :
    (calls[i].response.kind = "body" /\ calls[i].response.body.syntax # NotJSON)
      => /\ OneTextItem(i)
         /\ Payload(i) = JSONparse(calls[i].response.body.syntax)

\* the first n characters of a text, the whole text when it is shorter
FirstChars(text, n) == IF Len(text) <= n THEN text ELSE SubSeq(text, 1, n)

\* C5: when the backend's body is not JSON, the handler does not throw: the
\* result is one text item whose payload has status "error" and a raw
\* excerpt that is the first 500 characters of the body.
C5_NonJsonBodyExcerpt ==
  \A i \in Handled :
    (calls[i].response.kind = "body" /\ calls[i].response.body.syntax = NotJSON)
      => /\ OneTextItem(i)
         /\ IsObj(Payload(i))
         /\ Get(Payload(i).obj, "status") = Str("error")
         /\ Get(Payload(i).obj, "raw") = Str(FirstChars(calls[i].response.body.text, 500))

C5_Witness ==
  \E i \in Handled :
    /\ calls[i].response.kind = "body"
    /\ calls[i].response.body.syntax = NotJSON
    /\ Len(calls[i].response.body.text) > 500
    /\ Len(Payload(i).obj.raw.str) = 500

\* C6: when fetch or the reading of the response fails, the handler returns
\* a result whose payload is {status: "error", message}; no handler ends
\* with an exception.
C6_NetworkFailureReturned ==
  \A i \in Handled :
    /\ "exception" \notin DOMAIN calls[i].result
    /\ calls[i].response.kind \in {"fetch rejects", "text rejects"}
         => /\ OneTextItem(i)
            /\ IsObj(Payload(i))
            /\ DOMAIN Payload(i).obj = {"status", "message"}
            /\ Payload(i).obj.status = Str("error")
            /\ IsStr(Payload(i).obj.message)

C6_Witness ==
  \E i \in Handled :
    /\ calls[i].response.kind = "text rejects"
    /\ OneTextItem(i)
    /\ Payload(i).obj.status = Str("error")

\* C7: the query string of a GET has no entry with an empty or undefined
\* value: a parameter that is empty after validation is absent, and so are
\* track_shipment's carrier when omitted and the integration key when
\* neither the call nor the environment gives one.
C7_NoEmptyQueryParams ==
  \A i \in Active :
    \A n \in DOMAIN calls[i].requests :
      LET c == calls[i]
          r == c.requests[n]
      IN r.method = "GET" =>
           /\ \A k \in DOMAIN r.query : r.query[k] \notin {"", "undefined", "null"}
           /\ \A k \in DOMAIN c.params \ {"integration_key"} :
                c.params[k] = Str("") => k \notin DOMAIN r.query
           /\ (c.tool = "track_shipment" /\ "carrier" \notin DOMAIN c.args)
                => "carrier" \notin DOMAIN r.query
           /\ (~Truthy(Get(c.params, "integration_key")) /\ DEFAULT_KEY = "")
                => "integration_key" \notin DOMAIN r.query

C7_Witness ==
  \E i \in Slots :
    /\ calls[i].tool = "track_shipment"
    /\ "carrier" \notin DOMAIN calls[i].args
    /\ DEFAULT_KEY = ""
    /\ Len(calls[i].requests) = 1
    /\ DOMAIN calls[i].requests[1].query = {"tracking_number"}

\* C8: with no explicit key and no default key, a valid invocation is not
\* rejected: it issues its request, and the request carries no key other
\* than the empty one.
C8_NoKeyStillSent ==
  \A i \in Active :
    (DEFAULT_KEY = "" /\ ~Truthy(Get(calls[i].args, "integration_key")))
      => /\ (calls[i].pc = "done" /\ Valid(ToolSchema(calls[i].tool), calls[i].args))
              => (calls[i].handlerRan /\ Len(calls[i].requests) = 1)
         /\ \A n \in DOMAIN calls[i].requests :
              Credentials(calls[i].requests[n]) \subseteq {""}

C8_Witness ==
  \E i \in Handled :
    /\ DEFAULT_KEY = ""
    /\ calls[i].tool = "cancel_shipment"
    /\ "integration_key" \notin DOMAIN calls[i].args
    /\ Len(calls[i].requests) = 1
    /\ calls[i].requests[1].body.obj.integrated_key = Str("")

\* the products a create_shipment or get_shipping_rates request carries
SentProducts(i, r) ==
  IF calls[i].tool = "create_shipment"
  THEN r.body.obj.meta.obj.products.arr
  ELSE r.body.obj.products.arr

\* the value of a product's field the schema declares: the caller's, or
\* the default when the caller omitted it
Declared(p, field, default) == IF field \in DOMAIN p.obj THEN p.obj[field] ELSE Num(default)

\* C9: each product's numeric fields go out as the schema declares them:
\* the default only when the caller omitted the field, and every supplied
\* value, 0 included, unchanged.
C9_ProductDefaultsAsDeclared ==
  \A i \in Active :
    calls[i].tool \in {"create_shipment", "get_shipping_rates"} =>
      \A n \in DOMAIN calls[i].requests :
        LET in == calls[i].args.products.arr
            out == SentProducts(i, calls[i].requests[n])
        IN \A k \in DOMAIN in :
             /\ out[k].obj.prod_quantity = Declared(in[k], "quantity", 1)
             /\ out[k].obj.prod_price = Declared(in[k], "price", 0)
             /\ out[k].obj.prod_depth = Declared(in[k], "length", 1)
             /\ out[k].obj.prod_width = Declared(in[k], "width", 1)
             /\ out[k].obj.prod_height = Declared(in[k], "height", 1)

\* the caller's value of an address field, "" when it was omitted
Given(address, field) == IF field \in DOMAIN address.obj THEN address.obj[field] ELSE Str("")

AddressFields ==
  {"name", "company", "address1", "address2", "city", "state", "postal",
   "country", "phone", "email"}

\* C10: the body of a create_shipment request carries the shipper's fields
\* as s_*, the recipient's as t_*, each with the caller's value ("" when
\* omitted), and one product entry per product, in order, with prod_weight
\* the product's weight and prod_depth its length.
C10_CreateShipmentMapping ==
  \A i \in Active :
    calls[i].tool = "create_shipment" =>
      \A n \in DOMAIN calls[i].requests :
        LET a == calls[i].args
            r == calls[i].requests[n]
            meta == r.body.obj.meta.obj
            out == meta.products.arr
        IN /\ r.method = "POST"
           /\ \A f \in AddressFields :
                /\ meta["s_" \o f] = Given(a.shipper, f)
                /\ meta["t_" \o f] = Given(a.recipient, f)
           /\ Len(out) = Len(a.products.arr)
           /\ \A k \in DOMAIN out :
                /\ out[k].obj.prod_weight = a.products.arr[k].obj.weight
                /\ out[k].obj.prod_depth = Declared(a.products.arr[k], "length", 1)

\* C11: every request of a cancel_shipment invocation with shipment_id = n
\* carries del_ref = n in its body, and no field named shipment_id.
C11_CancelSendsDelRef ==
  \A i \in Active :
    calls[i].tool = "cancel_shipment" =>
      \A n \in DOMAIN calls[i].requests :
        LET r == calls[i].requests[n]
        IN /\ r.method = "POST"
           /\ "del_ref" \in DOMAIN r.body.obj
           /\ r.body.obj.del_ref = calls[i].args.shipment_id
           /\ "shipment_id" \notin DOMAIN r.body.obj

C11_Witness ==
  \E i \in Handled :
    /\ calls[i].tool = "cancel_shipment"
    /\ Get(calls[i].args, "shipment_id") = Num(0)
    /\ Len(calls[i].requests) = 1
    /\ calls[i].requests[1].body.obj.del_ref = Num(0)
    /\ DOMAIN calls[i].requests[1].body.obj \cap {"shipment_id"} = {}

\* the catalog's method of each tool
CatalogMethod(t) ==
  IF t \in {"list_shipments", "get_shipment", "search_shipments", "track_shipment",
            "fetch_labels", "list_addresses", "get_address", "list_carriers",
            "get_carrier", "get_account_info", "get_shipping_stats"}
  THEN "GET"
  ELSE "POST"

CatalogPostTools ==
  {"create_shipment", "cancel_shipment", "get_shipping_rates", "schedule_pickup",
   "add_address", "edit_address", "delete_address"}

\* the catalog's endpoint path of each tool
CatalogEndpoint(t) ==
  CASE t \in {"list_shipments", "get_shipment", "search_shipments"} -> "api/v1/shipments.php"
    [] t = "create_shipment" -> "label_api/create_shipment.php"
    [] t = "cancel_shipment" -> "cancel_api/delete_shipment.php"
    [] t = "get_shipping_rates" -> "rates_api/shipi_rates.php"
    [] t = "schedule_pickup" -> "pickup_api/create_pickup.php"
    [] t = "track_shipment" -> "api/v1/tracking_url.php"
    [] t = "fetch_labels" -> "label_api/fetch_labels.php"
    [] t \in {"list_addresses", "get_address", "add_address", "edit_address",
              "delete_address"} -> "api/v1/addresses.php"
    [] t \in {"list_carriers", "get_carrier"} -> "api/v1/carriers.php"
    [] t = "get_account_info" -> "api/v1/account.php"
    [] t = "get_shipping_stats" -> "api/v1/stats.php"

\* C12: exactly 18 tools are registered, under pairwise distinct names; every
\* request of a tool has the catalog's method and the URL made of the
\* configured base URL, "/" and the tool's endpoint path, whatever the
\* parameters; so no request goes to another host than the base URL's.
C12_FixedMethodAndUrl ==
  /\ Len(Tools) = 18
  /\ Cardinality(ToolNames) = 18
  /\ {t \in ToolNames : CatalogMethod(t) = "POST"} = CatalogPostTools
  /\ \A i \in Active :
       /\ calls[i].tool \in ToolNames
       /\ \A n \in DOMAIN calls[i].requests :
            LET r == calls[i].requests[n]
            IN /\ r.method = CatalogMethod(calls[i].tool)
               /\ r.url = BASE_URL \o "/" \o CatalogEndpoint(calls[i].tool)
               /\ SubSeq(r.url, 1, Len(BASE_URL)) = BASE_URL

C12_Witness ==
  \E i \in Handled :
    /\ calls[i].tool = "track_shipment"
    /\ BASE_URL = "http://mock.test"
    /\ calls[i].requests[1].method = "GET"
    /\ calls[i].requests[1].url = "http://mock.test/api/v1/tracking_url.php"

\* the strings and numbers (as written in a query string) within a value
RECURSIVE Leaves(_)
Leaves(v) ==
  CASE IsStr(v) -> {v.str}
    [] IsNum(v) -> {String(v)}
    [] IsObj(v) -> UNION {Leaves(v.obj[k]) : k \in DOMAIN v.obj}
    [] IsArr(v) -> UNION {Leaves(v.arr[n]) : n \in DOMAIN v.arr}
    [] OTHER -> {}

\* what call j was given: its arguments and its backend response
Supplied(j) ==
  Leaves(Obj(calls[j].args))
    \cup (IF "kind" \notin DOMAIN calls[j].response THEN {}
          ELSE IF calls[j].response.kind # "body" THEN {calls[j].response.message}
          ELSE IF calls[j].response.body.syntax = NotJSON
               THEN {calls[j].response.body.text}
          ELSE Leaves(JSONparse(calls[j].response.body.syntax)))

\* what call i sent and returned
Seen(i) ==
  UNION {{r.query[k] : k \in DOMAIN r.query} \cup Leaves(r.body) :
           r \in {calls[i].requests[n] : n \in DOMAIN calls[i].requests}}
    \cup (IF "content" \in DOMAIN calls[i].result THEN Leaves(Payload(i)) ELSE {})

\* nothing given to another call only shows in call i's request or result
NoForeignValue ==
  \A i \in Slots, j \in Slots :
    i # j => (Supplied(j) \ Supplied(i)) \cap Seen(i) = {}

\* the configuration read at startup is never written
ConfigKept == BASE_URL' = BASE_URL /\ DEFAULT_KEY' = DEFAULT_KEY

\* a step of one call leaves every other call as it was
OneCallPerStep == Cardinality({i \in Slots : calls'[i] # calls[i]}) <= 1

\* C13: under any interleaving of the calls, the default key and the base
\* URL are never modified after startup, each step touches one call only,
\* and no key, parameter or backend response of one call appears in another
\* call's outbound request or result.
C13_CallsIsolated ==
  /\ []NoForeignValue
  /\ [][ConfigKept /\ OneCallPerStep]_vars

\* two calls in flight at once with keys of their own, each request carrying
\* its own call's key, one of them already answered
C13_Witness ==
  /\ calls[1].tool = "cancel_shipment" /\ calls[2].tool = "list_shipments"
  /\ calls[1].pc = "awaiting" /\ calls[2].pc = "done"
  /\ Get(calls[1].args, "integration_key") = Str("K1")
  /\ Get(calls[2].args, "integration_key") = Str("K2")
  /\ calls[1].requests[1].body.obj.integrated_key = Str("K1")
  /\ calls[2].requests[1].query["integration_key"] = "K2"
  /\ "R2" \in Seen(2)

\* a call in an idle slot would be taken
AcceptsCalls ==
  \A i \in Slots :
    calls[i].pc = "idle" =>
      ENABLED (\E t \in ToolNames : \E a \in ToolArgs(t) : Invoke(i, t, a))

\* the process is gone only with status 1, after the failed start was
\* reported and before any call was taken; once started it runs and accepts
ExitOnlyAtStartup ==
  /\ exitCode # -1 <=> proc = "exited"
  /\ proc = "exited" =>
       /\ exitCode = 1
       /\ stderr = <<"Fatal error:">>
       /\ \A i \in Slots : calls[i] = Idle
  /\ proc # "exited" => exitCode = -1
  /\ "Shipi MCP Server running (stdio transport)" \in {stderr[n] : n \in DOMAIN stderr}
       => (proc = "running" /\ AcceptsCalls)

\* C14: the process exits with a non-zero status only when connecting the
\* transport fails at startup, the error being reported first; after a
\* successful start no step of a call (validation error, network failure,
\* non-JSON body, backend error) ends the process, and the server keeps
\* accepting tool invocations.
C14_OnlyStartupFailureExits ==
  /\ []ExitOnlyAtStartup
  /\ [][proc = "running" => proc' = "running" /\ exitCode' = -1]_vars

\* the process is running after a call whose request failed on the network
C14_Witness ==
  /\ proc = "running"
  /\ exitCode = -1
  /\ \E i \in Handled :
       /\ calls[i].response.kind = "fetch rejects"
       /\ Payload(i).obj.status = Str("error")

\* the tools that spread the caller's parameters after a fixed action
SpreadTools ==
  {"list_shipments", "get_shipment", "search_shipments", "list_addresses",
   "add_address", "edit_address", "list_carriers"}

FixedAction(t) ==
  CASE t \in {"list_shipments", "list_addresses", "list_carriers"} -> "list"
    [] t = "get_shipment" -> "get"
    [] t = "search_shipments" -> "search"
    [] t = "add_address" -> "add"
    [] t = "edit_address" -> "edit"

\* the fields a request carries, each as the string it would read as
SentFields(r) ==
  IF r.method = "GET" THEN r.query
  ELSE [k \in DOMAIN r.body.obj |-> String(r.body.obj[k])]

\* the arguments of call i that its tool's schema does not declare
UnknownArgs(i) == DOMAIN calls[i].args \ DOMAIN ToolSchema(calls[i].tool)

\* C15: fields of an invocation that the tool's schema does not declare are
\* ignored: the request carries none of their values, and the action of a
\* tool that spreads the caller's parameters is always the tool's fixed one.
C15_UnknownFieldsIgnored ==
  \A i \in Active :
    \A n \in DOMAIN calls[i].requests :
      LET sent == SentFields(calls[i].requests[n])
      IN /\ \A k \in UnknownArgs(i) :
              k \in DOMAIN sent => sent[k] # String(calls[i].args[k])
         /\ calls[i].tool \in SpreadTools =>
              /\ "action" \in DOMAIN sent
              /\ sent["action"] = FixedAction(calls[i].tool)

\* an edit_address call given action "delete" went out as an edit
C15_Witness ==
  \E i \in Handled :
    /\ calls[i].tool = "edit_address"
    /\ Get(calls[i].args, "action") = Str("delete")
    /\ Len(calls[i].requests) = 1
    /\ calls[i].requests[1].body.obj.action = Str("edit")

====
